---- MODULE Spec2Model ----
(***************************************************************************)
(* A model of macro_magic's core (core/src/lib.rs): the identifier         *)
(* normalizer to_snake_case, the escaping codec escape_extra /             *)
(* unescape_extra, and the export / import / forward protocol.             *)
(*                                                                         *)
(* Text is modelled as a sequence of one-character strings, so that the    *)
(* character loops and the substring replacements of the code are          *)
(* computed rather than assumed.                                           *)
(***************************************************************************)
EXTENDS Naturals, Sequences, FiniteSets, TLC

VARIABLES
    \* --- to_snake_case, one loop iteration per step
    input,            \* the String handed to to_snake_case
    idx,              \* position of the next character of input.chars()
    st,               \* the loop's locals: prev_lower, prev_whitespace, first, output
    result,           \* the returned String
    spc,              \* "run" while inside to_snake_case, "done" after it returned
    \* --- the codec as used by the two phases of attribute bridging
    cin,              \* <<attached_item_str, path text, custom_parsed text>>
    escaped,          \* escape_extra of each field
    direct,           \* unescape_extra applied to each escaped field
    extra,            \* the combined record built by format!("{}~~{}~~{}")
    fields,           \* what the inner phase decodes from extra
    cpc,              \* position in the codec pipeline
    \* --- the export / import / forward protocol, one macro expansion per step
    slots,            \* the registry: the macro_rules slots defined so far
    exp,              \* the most recent export_tokens_internal call and what it returned
    req,              \* the import or forward request whose expansion chain is running
    call,             \* the macro invocation waiting to be expanded (an Option)
    trace,            \* the expansions of the chain, in order
    out,              \* what the last expansion of the chain emitted (an Option)
    ppc,              \* "idle", "exported", "call", "done", "panicked" or "unresolved"
    \* --- the operations on generator definitions and use statements
    gop,              \* the operation called and its arguments
    gres,             \* what it returned
    gpc,              \* "idle", or "returned" while gres is being taken
    \* --- attribute bridging: a bridged generator attached to a declaration
    bdef,             \* the generator definition that was bridged, and its use
    bind,             \* the inner phase's bindings when the user's statements run
    bpc               \* position in the two phases

vars == <<input, idx, st, result, spc, cin, escaped, direct, extra, fields, cpc,
          slots, exp, req, call, trace, out, ppc, gop, gres, gpc, bdef, bind, bpc>>

snakeVars == <<input, idx, st, result, spc>>
codecVars == <<cin, escaped, direct, extra, fields, cpc>>
protoVars == <<slots, exp, req, call, trace, out, ppc>>
genVars == <<gop, gres, gpc>>
bridgeVars == <<bdef, bind, bpc>>

(***************************************************************************)
(* Bounds of the model.                                                    *)
(***************************************************************************)
MaxSnakeLen == 4
MaxFieldLen == 4
MaxSideLen == 1

(***************************************************************************)
(* Strings.                                                                *)
(***************************************************************************)
RECURSIVE StrUpTo(_, _)
StrUpTo(alphabet, n) ==
    IF n = 0 THEN {<<>>}
    ELSE LET shorter == StrUpTo(alphabet, n - 1)
         IN  shorter \cup {Append(s, c) : s \in {t \in shorter : Len(t) = n - 1}, c \in alphabet}

\* str::replace: every leftmost, non-overlapping occurrence of pat becomes rep.
RECURSIVE str_replace(_, _, _)
str_replace(s, pat, rep) ==
    IF Len(s) < Len(pat) THEN s
    ELSE IF SubSeq(s, 1, Len(pat)) = pat
         THEN rep \o str_replace(SubSeq(s, Len(pat) + 1, Len(s)), pat, rep)
         ELSE <<Head(s)>> \o str_replace(Tail(s), pat, rep)

\* str::split: the fields between the leftmost, non-overlapping occurrences of pat.
RECURSIVE str_split_from(_, _, _)
str_split_from(s, pat, cur) ==
    IF Len(s) < Len(pat) THEN <<cur \o s>>
    ELSE IF SubSeq(s, 1, Len(pat)) = pat
         THEN <<cur>> \o str_split_from(SubSeq(s, Len(pat) + 1, Len(s)), pat, <<>>)
         ELSE str_split_from(Tail(s), pat, Append(cur, Head(s)))

str_split(s, pat) == str_split_from(s, pat, <<>>)

(***************************************************************************)
(* Characters.                                                             *)
(***************************************************************************)
LowerSeq ==
    << "a", "b", "c", "d", "e", "f", "g", "h", "i", "j", "k", "l", "m",
       "n", "o", "p", "q", "r", "s", "t", "u", "v", "w", "x", "y", "z" >>
UpperSeq ==
    << "A", "B", "C", "D", "E", "F", "G", "H", "I", "J", "K", "L", "M",
       "N", "O", "P", "Q", "R", "S", "T", "U", "V", "W", "X", "Y", "Z" >>
AsciiLower == {LowerSeq[i] : i \in DOMAIN LowerSeq}
AsciiUpper == {UpperSeq[i] : i \in DOMAIN UpperSeq}
AsciiDigit == {"0", "1", "2", "3", "4", "5", "6", "7", "8", "9"}
\* A lowercase letter outside ASCII (U+00E9), legal in a Rust identifier.
NonAsciiLower == "U+00E9"

is_lowercase(c) == c \in AsciiLower \cup {NonAsciiLower}
is_whitespace(c) == c = " "
is_ascii_alphanumeric(c) == c \in AsciiLower \cup AsciiUpper \cup AsciiDigit
to_ascii_lowercase(c) ==
    IF c \in AsciiUpper
    THEN LowerSeq[CHOOSE i \in DOMAIN UpperSeq : UpperSeq[i] = c]
    ELSE c

(***************************************************************************)
(* to_snake_case (core/src/lib.rs:322-361).                                *)
(***************************************************************************)
\* The locals before the loop (lines 327-330).
snake_locals(s) ==
    [prev_lower |-> is_lowercase(s[1]),
     prev_whitespace |-> TRUE,
     first |-> TRUE,
     output |-> <<>>]

\* The condition of lines 347-350, and first the same condition with the two
\* case tests exchanged (a boundary before a lowercase letter).
needs_boundary_swapped(prev_lower, current_lower, first, prev_whitespace) ==
    /\ \/ (prev_lower # current_lower /\ ~prev_lower)
       \/ (prev_lower = current_lower /\ prev_lower)
    /\ ~first
    /\ ~prev_whitespace
\* The same condition without the test of prev_whitespace.
needs_boundary_after_underscore(prev_lower, current_lower, first, prev_whitespace) ==
    /\ \/ (prev_lower # current_lower /\ prev_lower)
       \/ (prev_lower = current_lower /\ ~prev_lower)
    /\ ~first
\* The same condition asking for a change of case in either direction.
needs_boundary_case_change(prev_lower, current_lower, first, prev_whitespace) ==
    /\ prev_lower # current_lower
    /\ ~first
    /\ ~prev_whitespace
needs_boundary(prev_lower, current_lower, first, prev_whitespace) ==
    /\ \/ (prev_lower # current_lower /\ prev_lower)
       \/ (prev_lower = current_lower /\ ~prev_lower)
    /\ ~first
    /\ ~prev_whitespace

\* One iteration of `for c in input.chars()` (lines 331-359), and first the
\* same iteration with the `continue` of line 338 left out, so that a dropped
\* character reaches `first = false`.
snake_step_drop_counts(l, c) ==
    IF c = "_"
    THEN [l EXCEPT !.prev_whitespace = TRUE, !.output = Append(@, "_")]
    ELSE IF ~is_ascii_alphanumeric(c) /\ c # "_" /\ ~is_whitespace(c)
    THEN [l EXCEPT !.first = FALSE]
    ELSE IF (~l.first /\ is_whitespace(c)) \/ c = "_"
    THEN [l EXCEPT !.output = IF ~l.prev_whitespace THEN Append(@, "_") ELSE @,
                   !.prev_whitespace = TRUE,
                   !.first = FALSE]
    ELSE LET current_lower == is_lowercase(c)
             out1 == IF needs_boundary(l.prev_lower, current_lower, l.first, l.prev_whitespace)
                     THEN Append(l.output, "_")
                     ELSE l.output
         IN  [prev_lower |-> current_lower,
              prev_whitespace |-> FALSE,
              first |-> FALSE,
              output |-> Append(out1, to_ascii_lowercase(c))]
snake_step(l, c) ==
    IF c = "_"
    THEN [l EXCEPT !.prev_whitespace = TRUE, !.output = Append(@, "_")]
    ELSE IF ~is_ascii_alphanumeric(c) /\ c # "_" /\ ~is_whitespace(c)
    THEN l
    ELSE IF (~l.first /\ is_whitespace(c)) \/ c = "_"
    THEN [l EXCEPT !.output = IF ~l.prev_whitespace THEN Append(@, "_") ELSE @,
                   !.prev_whitespace = TRUE,
                   !.first = FALSE]
    ELSE LET current_lower == is_lowercase(c)
             out1 == IF needs_boundary(l.prev_lower, current_lower, l.first, l.prev_whitespace)
                     THEN Append(l.output, "_")
                     ELSE l.output
         IN  [prev_lower |-> current_lower,
              prev_whitespace |-> FALSE,
              first |-> FALSE,
              output |-> Append(out1, to_ascii_lowercase(c))]

RECURSIVE snake_fold(_, _, _)
snake_fold(l, s, i) ==
    IF i > Len(s) THEN l ELSE snake_fold(snake_step(l, s[i]), s, i + 1)

\* The whole function, for the callers that use it as a value.
to_snake_case(s) ==
    IF Len(s) = 0 THEN s ELSE snake_fold(snake_locals(s), s, 1).output

(***************************************************************************)
(* The escaping codec (core/src/lib.rs:367-382).                           *)
(***************************************************************************)
Backslash == "\\"
Delim == <<"~", "~">>

escape_extra(s) ==
    str_replace(str_replace(s, <<Backslash>>, <<Backslash, Backslash>>),
                Delim, <<Backslash, "~", Backslash, "~">>)

unescape_extra(s) ==
    str_replace(str_replace(s, <<Backslash, Backslash>>, <<Backslash>>),
                <<Backslash, "~", Backslash, "~">>, Delim)

(***************************************************************************)
(* Tokens.  A token stream is a sequence of tokens; a token is a kind and  *)
(* its text.  An identifier's text is its characters, so that              *)
(* to_snake_case runs on it; a keyword or punctuation is a single atom.    *)
(***************************************************************************)
Tok(k, s) == [k |-> k, s |-> s]
Ident(chars) == Tok("ident", chars)
Kw(w) == Tok("kw", <<w>>)
Punct(p) == Tok("punct", <<p>>)
LitStr(chars) == Tok("lit", chars)
\* `$name` and `$($name)::*` as they stand in a macro_rules transcriber.
MetaVar(name) == Tok("metavar", <<name>>)
RepVar(name) == Tok("repvar", <<name>>)
ColonColon == Punct("::")

\* Option<T> is a sequence of length at most one; Result<T> adds a panic.
None == <<>>
Some(x) == <<x>>
Ok(x) == [tag |-> "ok", out |-> <<x>>]
Err == [tag |-> "err", out |-> <<>>]
Panic == [tag |-> "panic", out |-> <<>>]

\* TokenStream::to_string: the texts of the tokens, separated by spaces.
token_text(t) ==
    IF t.k = "metavar" THEN <<"$">> \o t.s
    ELSE IF t.k = "lit" THEN <<"\"">> \o t.s \o <<"\"">>
    ELSE t.s
RECURSIVE to_string(_)
to_string(toks) ==
    IF Len(toks) = 0 THEN <<>>
    ELSE IF Len(toks) = 1 THEN token_text(toks[1])
    ELSE token_text(toks[1]) \o <<" ">> \o to_string(Tail(toks))

(***************************************************************************)
(* syn::Path: an optional leading `::` and segments separated by `::`.     *)
(***************************************************************************)
Path(lead, segs) == [lead |-> lead, segs |-> segs]

RECURSIVE join_segments(_)
join_segments(segs) ==
    IF Len(segs) = 0 THEN <<>>
    ELSE IF Len(segs) = 1 THEN <<Ident(segs[1])>>
    ELSE <<Ident(segs[1]), ColonColon>> \o join_segments(Tail(segs))

path_tokens(p) == (IF p.lead THEN <<ColonColon>> ELSE <<>>) \o join_segments(p.segs)

parse_path(toks) ==
    LET lead == Len(toks) > 0 /\ toks[1] = ColonColon
        body == IF lead THEN Tail(toks) ELSE toks
        ok == /\ Len(body) % 2 = 1
              /\ \A i \in DOMAIN body :
                    IF i % 2 = 1 THEN body[i].k = "ident" ELSE body[i] = ColonColon
    IN  IF ok
        THEN Some(Path(lead, [i \in 1..((Len(body) + 1) \div 2) |-> body[2 * i - 1].s]))
        ELSE None

\* parse2::<Ident>: exactly one identifier token (a keyword is not one).
parse_ident(toks) ==
    IF Len(toks) = 1 /\ toks[1].k = "ident" THEN Some(toks[1].s) ELSE None

\* macro_magic_root() with the default MACRO_MAGIC_ROOT, and private_path().
macro_magic_root == Path(TRUE, << <<"macro_magic">> >>)
private_path(subpath) ==
    Path(macro_magic_root.lead, macro_magic_root.segs \o << <<"__private">>, subpath >>)

(***************************************************************************)
(* syn::Item, as its tokens.                                               *)
(***************************************************************************)
item_kind(toks) ==
    IF Len(toks) = 0 THEN "None"
    ELSE IF toks[1] = Kw("struct") THEN "Struct"
    ELSE IF toks[1] = Kw("impl") THEN "Impl"
    ELSE IF toks[1] = Kw("use") THEN "Use"
    ELSE IF Len(toks) >= 2 /\ toks[1].k = "ident" /\ toks[2] = Punct("!") THEN "Macro"
    ELSE "None"

\* The match of lines 418-436: the item's own name, if it has one.
item_ident(item) ==
    IF item_kind(item) = "Struct" THEN Some(item[2].s)
    ELSE IF item_kind(item) = "Macro" /\ item[3].k = "ident" THEN Some(item[3].s)
    ELSE None

(***************************************************************************)
(* Registry slot naming (lines 387-399).                                   *)
(***************************************************************************)
\* Ident::new panics unless its string is an identifier.
ident_new_ok(s) ==
    /\ Len(s) > 0
    /\ s[1] \in AsciiLower \cup AsciiUpper \cup {"_", NonAsciiLower}
    /\ \A i \in DOMAIN s :
          s[i] \in AsciiLower \cup AsciiUpper \cup AsciiDigit \cup {"_", NonAsciiLower}

\* The string flatten_ident hands to Ident::new.
flatten_ident(ident) == to_snake_case(ident)
flatten_ident_panics(ident) == ~ident_new_ok(flatten_ident(ident))

SlotPrefix == "__export_tokens_tt_"
\* export_tokens_macro_ident, and first the same without the call of
\* flatten_ident.
export_tokens_macro_ident_unflattened(ident) == <<SlotPrefix>> \o ident
export_tokens_macro_ident(ident) == <<SlotPrefix>> \o flatten_ident(ident)

(***************************************************************************)
(* export_tokens_internal (lines 411-479).                                 *)
(***************************************************************************)
AllowUnused == Tok("attr", <<"allow(unused)">>)

\* The two arms of the emitted macro_rules (lines 460-473).  Both take
\* `$(::)?$($tokens_var:ident)::*, $(::)?$($callback:ident)::*`; the first
\* takes `, $extra:expr` as well.  An arm's body invokes `$($callback)::*`
\* with the arguments listed, the item's tokens spliced in by quote!.
extra_arm(item) ==
    [params |-> <<"tokens_var", "callback", "extra">>,
     args |-> << <<RepVar("tokens_var")>>, item, <<MetaVar("extra")>> >>]
plain_arm(item) ==
    [params |-> <<"tokens_var", "callback">>,
     args |-> << <<RepVar("tokens_var")>>, item >>]

\* Lines 448-454, and first the same with the `false` arm emitting the item too.
item_emit_always(item, emit) == <<AllowUnused>> \o item
item_emit(item, emit) == IF emit THEN <<AllowUnused>> \o item ELSE <<>>

\* Lines 437-446: the name the slot is derived from.
export_ident(attr, item) ==
    IF item_ident(item) # None /\ attr = <<>>
    THEN item_ident(item)
    ELSE parse_ident(attr)

export_tokens_internal(attr, tokens, emit) ==
    LET ident == export_ident(attr, tokens)
    IN  IF ident = None THEN Err
        ELSE IF flatten_ident_panics(ident[1]) THEN Panic
        ELSE Ok([slot |-> [name |-> export_tokens_macro_ident(ident[1]),
                           extra_arm |-> extra_arm(tokens),
                           plain_arm |-> plain_arm(tokens)],
                 item_emit |-> item_emit(tokens, emit)])

(***************************************************************************)
(* Expansion of a slot: macro_rules matching and transcription of the arms *)
(* of lines 460-473.                                                       *)
(***************************************************************************)
\* `$(::)?$($x:ident)::*` matches a path of plain identifiers, `$extra:expr`
\* a literal.
arm_matches(arm, args) ==
    /\ Len(args) = Len(arm.params)
    /\ parse_path(args[1]) # None
    /\ parse_path(args[2]) # None
    /\ Len(args) = 3 => (Len(args[3]) = 1 /\ args[3][1].k = "lit")

param_index(arm, name) == CHOOSE i \in DOMAIN arm.params : arm.params[i] = name
is_param(arm, name) == \E i \in DOMAIN arm.params : arm.params[i] = name

\* A metavariable the arm binds is replaced by what it matched, wherever it
\* stands in the body; one it does not bind is transcribed as it is.
\* `$($x)::*` writes the identifiers matched, without the leading `::`.
transcribe_token(t, arm, args) ==
    IF t.k = "repvar" /\ is_param(arm, t.s[1])
    THEN join_segments(parse_path(args[param_index(arm, t.s[1])])[1].segs)
    ELSE IF t.k = "metavar" /\ is_param(arm, t.s[1])
    THEN args[param_index(arm, t.s[1])]
    ELSE <<t>>

RECURSIVE transcribe(_, _, _)
transcribe(toks, arm, args) ==
    IF Len(toks) = 0 THEN <<>>
    ELSE transcribe_token(Head(toks), arm, args) \o transcribe(Tail(toks), arm, args)

expand_arm(arm, args) ==
    [mac |-> Path(FALSE, parse_path(args[2])[1].segs),
     args |-> [i \in DOMAIN arm.args |-> transcribe(arm.args[i], arm, args)]]

\* The first arm that matches is taken.
slot_matches(slot, args) ==
    arm_matches(slot.extra_arm, args) \/ arm_matches(slot.plain_arm, args)
slot_expand(slot, args) ==
    IF arm_matches(slot.extra_arm, args)
    THEN expand_arm(slot.extra_arm, args)
    ELSE expand_arm(slot.plain_arm, args)

(***************************************************************************)
(* import_tokens_internal, forward_tokens_internal and their inner macros  *)
(* (lines 527-611).                                                        *)
(***************************************************************************)
Last(s) == s[Len(s)]

\* Lines 529-538 and 568-577: the path of the slot that is invoked, and first
\* the same with every segment before the last kept.
slot_source_path_keep_prefix(source) ==
    Path(FALSE, SubSeq(source.segs, 1, Len(source.segs) - 1)
                \o <<export_tokens_macro_ident(Last(source.segs))>>)
slot_source_path(source) ==
    IF Len(source.segs) > 1
    THEN Path(FALSE, <<source.segs[1], export_tokens_macro_ident(Last(source.segs))>>)
    ELSE Path(FALSE, <<export_tokens_macro_ident(Last(source.segs))>>)

import_tokens_internal(tokens_var_ident, source_path) ==
    IF flatten_ident_panics(Last(source_path.segs)) THEN Panic
    ELSE Ok([mac |-> slot_source_path(source_path),
             args |-> << <<Ident(tokens_var_ident)>>,
                         path_tokens(private_path(<<"import_tokens_inner">>)) >>])

\* parse2::<ImportedTokens>: an identifier, a comma, an item.  First the same
\* with the identifier serialized in place of the item.
import_tokens_inner_internal_var_text(args) ==
    IF Len(args) = 2 /\ parse_ident(args[1]) # None /\ item_kind(args[2]) # "None"
    THEN Ok([var |-> parse_ident(args[1])[1],
             string |-> to_string(args[1]),
             parse_as |-> private_path(<<"TokenStream2">>)])
    ELSE Err
import_tokens_inner_internal(args) ==
    IF Len(args) = 2 /\ parse_ident(args[1]) # None /\ item_kind(args[2]) # "None"
    THEN Ok([var |-> parse_ident(args[1])[1],
             string |-> to_string(args[2]),
             parse_as |-> private_path(<<"TokenStream2">>)])
    ELSE Err

\* mm_path and extra are Options; the parser only reads extra after mm_path.
forward_tokens_internal(source, target, mm_path_arg, extra_arg) ==
    LET mm_path == IF mm_path_arg # None THEN mm_path_arg[1] ELSE macro_magic_root
        inner == Path(mm_path.lead,
                      mm_path.segs \o << <<"__private">>, <<"forward_tokens_inner">> >>)
    IN  IF flatten_ident_panics(Last(source.segs)) THEN Panic
        ELSE IF extra_arg # None
        THEN Ok([mac |-> slot_source_path(source),
                 args |-> <<path_tokens(target), path_tokens(inner), <<LitStr(extra_arg[1])>> >>])
        ELSE Ok([mac |-> slot_source_path(source),
                 args |-> <<path_tokens(target), path_tokens(inner)>>])

\* parse2::<ForwardedTokens>: a path, a comma, an item, and optionally a comma
\* and a string literal.
forward_tokens_inner_internal(args) ==
    IF /\ Len(args) \in {2, 3}
       /\ parse_path(args[1]) # None
       /\ item_kind(args[2]) # "None"
       /\ Len(args) = 3 => (Len(args[3]) = 1 /\ args[3][1].k = "lit")
    THEN Ok([mac |-> parse_path(args[1])[1],
             args |-> IF Len(args) = 3 THEN <<args[2], args[3]>> ELSE <<args[2]>>])
    ELSE Err

(***************************************************************************)
(* The parts of the state a specification does not use stay as they are    *)
(* here.                                                                   *)
(***************************************************************************)
SnakeIdle ==
    /\ input = <<>>
    /\ idx = 1
    /\ st = [prev_lower |-> FALSE, prev_whitespace |-> TRUE, first |-> TRUE, output |-> <<>>]
    /\ result = <<>>
    /\ spc = "idle"

CodecIdle ==
    /\ cin = <<>>
    /\ escaped = <<>>
    /\ direct = <<>>
    /\ extra = <<>>
    /\ fields = <<>>
    /\ cpc = "idle"

GenIdle ==
    /\ gop = [op |-> "none"]
    /\ gres = [tag |-> "none", out |-> <<>>]
    /\ gpc = "idle"

BridgeIdle ==
    /\ bdef = <<>>
    /\ bind = <<>>
    /\ bpc = "idle"

(***************************************************************************)
(* Specification Spec: a build in which declarations are exported and one  *)
(* import or forward request is expanded, one macro expansion per step.    *)
(***************************************************************************)
\* Identifiers: Foo and foo normalize to the same name, MyT gets a word
\* boundary, and the last one has no ASCII character at all.
NameFoo == <<"F", "o", "o">>
Namefoo == <<"f", "o", "o">>
NameMyT == <<"M", "y", "T">>
NameAcute == <<NonAsciiLower>>
Names == {NameFoo, Namefoo, NameMyT, NameAcute}

\* struct N {}  and  struct N<T> {}
StructItem(n, generic) ==
    <<Kw("struct"), Ident(n)>>
    \o (IF generic THEN <<Punct("<"), Ident(<<"T">>), Punct(">")>> ELSE <<>>)
    \o <<Punct("{"), Punct("}")>>
\* macro_rules! N { ($extra:expr) => { $extra }; }
MacroRulesItem(n) ==
    <<Ident(<<"macro_rules">>), Punct("!"), Ident(n), Punct("{"),
      Punct("("), MetaVar("extra"), Punct(":"), Ident(<<"expr">>), Punct(")"),
      Punct("=>"), Punct("{"), MetaVar("extra"), Punct("}"), Punct(";"), Punct("}")>>
\* some_macro! {}
UnnamedMacroItem ==
    <<Ident(<<"some_macro">>), Punct("!"), Punct("{"), Punct("}")>>
\* impl MyTrait for Something {}
ImplItem ==
    <<Kw("impl"), Ident(<<"MyTrait">>), Kw("for"), Ident(<<"Something">>),
      Punct("{"), Punct("}")>>
\* use some::path;
UseItem ==
    <<Kw("use"), Ident(<<"some">>), ColonColon, Ident(<<"path">>), Punct(";")>>

\* A declaration whose tokens use `$tokens_var` or `$callback`, or a repetition
\* of its own, makes the compiler reject the slot's expansion; the chain then
\* has no product, and no such declaration is among these.
Items ==
    {StructItem(n, FALSE) : n \in Names}
    \cup {StructItem(NameMyT, TRUE), MacroRulesItem(NameFoo), UnnamedMacroItem, ImplItem, UseItem}

\* The attribute's argument: nothing, an identifier, some::path, Something<T>.
Attrs ==
    {<<>>}
    \cup {<<Ident(n)>> : n \in {Namefoo, NameMyT, NameAcute}}
    \cup {<<Ident(<<"some">>), ColonColon, Ident(<<"path">>)>>,
          <<Ident(<<"Something">>), Punct("<"), Ident(<<"T">>), Punct(">")>>}

\* Source paths: N, k::N and k::m::N, each with and without a leading `::`.
Prefixes == {<<>>, << <<"k">> >>, << <<"k">>, <<"m">> >>}
SourcePaths == {Path(l, pre \o <<n>>) : l \in BOOLEAN, pre \in Prefixes, n \in Names}
Targets == {Path(FALSE, << <<"t">> >>), Path(TRUE, << <<"k">>, <<"t">> >>)}
VarIdents == {<<"v">>}
Extras == {<<"x">>}
\* The optional tail of forward_tokens!'s arguments: nothing, a root, a root
\* and a literal.
ForwardTails ==
    {<<None, None>>, <<Some(macro_magic_root), None>>}
    \cup {<<Some(macro_magic_root), Some(e)>> : e \in Extras}

NoExport == [attr |-> <<>>, item |-> <<>>, emit |-> FALSE, res |-> [tag |-> "none", out |-> <<>>]]
NoRequest ==
    [op |-> "none", var |-> <<>>, source |-> Path(FALSE, <<>>),
     target |-> None, mm_path |-> None, extra |-> None]

ProtoIdle ==
    /\ slots = {}
    /\ exp = NoExport
    /\ req = NoRequest
    /\ call = None
    /\ trace = <<>>
    /\ out = None
    /\ ppc = "idle"

Init ==
    /\ SnakeIdle
    /\ CodecIdle
    /\ ProtoIdle
    /\ GenIdle
    /\ BridgeIdle

\* #[export_tokens(attr)] on a declaration: export_tokens_internal runs and
\* returns.
Export(attr, tokens, emit) ==
    /\ ppc = "idle"
    /\ exp' = [attr |-> attr, item |-> tokens, emit |-> emit,
               res |-> export_tokens_internal(attr, tokens, emit)]
    /\ ppc' = "exported"
    /\ UNCHANGED <<slots, req, call, trace, out>>
    /\ UNCHANGED snakeVars
    /\ UNCHANGED codecVars
    /\ UNCHANGED genVars
    /\ UNCHANGED bridgeVars

SlotTaken(name) == \E s \in slots : s.def.name = name

\* The compiler takes the returned code: the #[macro_export]ed macro_rules
\* becomes a slot of the registry.
DefineSlot ==
    /\ ppc = "exported"
    /\ exp.res.tag = "ok"
    /\ ~SlotTaken(exp.res.out[1].slot.name)
    /\ slots' = slots \cup {[decl |-> exp.item, def |-> exp.res.out[1].slot]}
    /\ exp' = NoExport
    /\ ppc' = "idle"
    /\ UNCHANGED <<req, call, trace, out>>
    /\ UNCHANGED snakeVars
    /\ UNCHANGED codecVars
    /\ UNCHANGED genVars
    /\ UNCHANGED bridgeVars

\* A second definition of a slot name is rejected by the compiler, and an
\* export that returned an error or panicked defines nothing.
ExportRejected ==
    /\ ppc = "exported"
    /\ exp.res.tag = "ok" => SlotTaken(exp.res.out[1].slot.name)
    /\ exp' = NoExport
    /\ ppc' = "idle"
    /\ UNCHANGED <<slots, req, call, trace, out>>
    /\ UNCHANGED snakeVars
    /\ UNCHANGED codecVars
    /\ UNCHANGED genVars
    /\ UNCHANGED bridgeVars

\* The first expansion of a chain, from what import_tokens_internal or
\* forward_tokens_internal returned.
Begin(request, res) ==
    /\ req' = request
    /\ trace' = <<request.op>>
    /\ out' = None
    /\ call' = res.out
    /\ ppc' = IF res.tag = "ok" THEN "call" ELSE "panicked"
    /\ UNCHANGED <<slots, exp>>
    /\ UNCHANGED snakeVars
    /\ UNCHANGED codecVars
    /\ UNCHANGED genVars
    /\ UNCHANGED bridgeVars

\* import_tokens!(let v = source)
Import(v, source) ==
    /\ ppc = "idle"
    /\ Begin([op |-> "import", var |-> v, source |-> source,
              target |-> None, mm_path |-> None, extra |-> None],
             import_tokens_internal(v, source))

\* forward_tokens!(source, target [, mm_path [, extra]])
Forward(source, target, tail) ==
    /\ ppc = "idle"
    /\ Begin([op |-> "forward", var |-> <<>>, source |-> source,
              target |-> Some(target), mm_path |-> tail[1], extra |-> tail[2]],
             forward_tokens_internal(source, target, tail[1], tail[2]))

\* The macro a path names is found by its last segment: a #[macro_export]ed
\* slot sits at the root of its crate.
Resolves(s) == ppc = "call" /\ s.def.name = Last(call[1].mac.segs)
IsInner(name) == ppc = "call" /\ Last(call[1].mac.segs) = <<name>>

\* The pending invocation names a slot: the slot's macro_rules expands.
ExpandSlot ==
    /\ \E s \in slots :
          /\ Resolves(s)
          /\ slot_matches(s.def, call[1].args)
          /\ call' = Some(slot_expand(s.def, call[1].args))
    /\ trace' = Append(trace, "slot")
    /\ UNCHANGED <<slots, exp, req, out, ppc>>
    /\ UNCHANGED snakeVars
    /\ UNCHANGED codecVars
    /\ UNCHANGED genVars
    /\ UNCHANGED bridgeVars

\* The pending invocation names nothing that was exported: the compiler
\* reports an unknown macro.
Unresolved ==
    /\ ppc = "call"
    /\ ~ \E s \in slots : Resolves(s)
    /\ ~IsInner("import_tokens_inner")
    /\ ~IsInner("forward_tokens_inner")
    /\ ppc' = "unresolved"
    /\ UNCHANGED <<slots, exp, req, call, trace, out>>
    /\ UNCHANGED snakeVars
    /\ UNCHANGED codecVars
    /\ UNCHANGED genVars
    /\ UNCHANGED bridgeVars

\* The last expansion of a chain: the inner macro's output is what the chain
\* leaves in the importing code.
Finish(name, res) ==
    /\ res.tag = "ok"
    /\ out' = res.out
    /\ call' = None
    /\ trace' = Append(trace, name)
    /\ ppc' = "done"
    /\ UNCHANGED <<slots, exp, req>>
    /\ UNCHANGED snakeVars
    /\ UNCHANGED codecVars
    /\ UNCHANGED genVars
    /\ UNCHANGED bridgeVars

ImportInner ==
    /\ IsInner("import_tokens_inner")
    /\ Finish("import_tokens_inner", import_tokens_inner_internal(call[1].args))

ForwardInner ==
    /\ IsInner("forward_tokens_inner")
    /\ Finish("forward_tokens_inner", forward_tokens_inner_internal(call[1].args))

Next ==
    \/ \E a \in Attrs, i \in Items, e \in BOOLEAN : Export(a, i, e)
    \/ DefineSlot
    \/ ExportRejected
    \/ \E v \in VarIdents, s \in SourcePaths : Import(v, s)
    \/ \E s \in SourcePaths, t \in Targets, tail \in ForwardTails : Forward(s, t, tail)
    \/ ExpandSlot
    \/ Unresolved
    \/ ImportInner
    \/ ForwardInner

Spec == Init /\ [][Next]_vars

(***************************************************************************)
(* Specification SpecSnake: to_snake_case run on every bounded input.      *)
(***************************************************************************)
SnakeAlphabet == {"a", "B", "_", "1", " ", "!", NonAsciiLower}
SnakeInputs == StrUpTo(SnakeAlphabet, MaxSnakeLen)

SnakeInit ==
    /\ input \in SnakeInputs
    /\ idx = 1
    /\ st = IF Len(input) = 0
            THEN [prev_lower |-> FALSE, prev_whitespace |-> TRUE, first |-> TRUE, output |-> <<>>]
            ELSE snake_locals(input)
    /\ result = <<>>
    /\ spc = "run"
    /\ CodecIdle
    /\ ProtoIdle
    /\ GenIdle
    /\ BridgeIdle

\* Lines 324-326: the empty input is returned as it is.
SnakeReturnEmpty ==
    /\ spc = "run"
    /\ Len(input) = 0
    /\ result' = input
    /\ spc' = "done"
    /\ UNCHANGED <<input, idx, st>>
    /\ UNCHANGED codecVars
    /\ UNCHANGED genVars
    /\ UNCHANGED bridgeVars
    /\ UNCHANGED protoVars

\* Lines 331-359: one character.
SnakeLoop ==
    /\ spc = "run"
    /\ Len(input) > 0
    /\ idx <= Len(input)
    /\ st' = snake_step(st, input[idx])
    /\ idx' = idx + 1
    /\ UNCHANGED <<input, result, spc>>
    /\ UNCHANGED codecVars
    /\ UNCHANGED genVars
    /\ UNCHANGED bridgeVars
    /\ UNCHANGED protoVars

\* Line 360: the output characters are collected and returned.
SnakeCollect ==
    /\ spc = "run"
    /\ Len(input) > 0
    /\ idx > Len(input)
    /\ result' = st.output
    /\ spc' = "done"
    /\ UNCHANGED <<input, idx, st>>
    /\ UNCHANGED codecVars
    /\ UNCHANGED genVars
    /\ UNCHANGED bridgeVars
    /\ UNCHANGED protoVars

SnakeNext == SnakeReturnEmpty \/ SnakeLoop \/ SnakeCollect

SpecSnake == SnakeInit /\ [][SnakeNext]_vars

(***************************************************************************)
(* Specification SpecCodec: the combined record of attribute bridging.     *)
(* The outer phase (lines 750-755) escapes three texts and joins them with *)
(* "~~"; the inner phase (lines 774-780) splits on "~~" and unescapes the  *)
(* first three fields.                                                     *)
(***************************************************************************)
CodecAlphabet == {Backslash, "~", "a"}

CodecInit ==
    /\ cin \in StrUpTo(CodecAlphabet, MaxFieldLen)
               \X StrUpTo(CodecAlphabet, MaxSideLen)
               \X StrUpTo(CodecAlphabet, MaxSideLen)
    /\ escaped = <<>>
    /\ direct = <<>>
    /\ extra = <<>>
    /\ fields = <<>>
    /\ cpc = "escape"
    /\ SnakeIdle
    /\ ProtoIdle
    /\ GenIdle
    /\ BridgeIdle

\* The three escape_extra calls of lines 752-754.
EscapeFields ==
    /\ cpc = "escape"
    /\ escaped' = [i \in 1..3 |-> escape_extra(cin[i])]
    /\ cpc' = "unescape"
    /\ UNCHANGED <<cin, direct, extra, fields>>
    /\ UNCHANGED snakeVars
    /\ UNCHANGED protoVars
    /\ UNCHANGED genVars
    /\ UNCHANGED bridgeVars

\* unescape_extra applied to what escape_extra returned.
UnescapeFields ==
    /\ cpc = "unescape"
    /\ direct' = [i \in 1..3 |-> unescape_extra(escaped[i])]
    /\ cpc' = "format"
    /\ UNCHANGED <<cin, escaped, extra, fields>>
    /\ UNCHANGED snakeVars
    /\ UNCHANGED protoVars
    /\ UNCHANGED genVars
    /\ UNCHANGED bridgeVars

\* format!("{}~~{}~~{}", ...) of lines 750-755.
FormatExtra ==
    /\ cpc = "format"
    /\ extra' = escaped[1] \o Delim \o escaped[2] \o Delim \o escaped[3]
    /\ cpc' = "split"
    /\ UNCHANGED <<cin, escaped, direct, fields>>
    /\ UNCHANGED snakeVars
    /\ UNCHANGED protoVars
    /\ UNCHANGED genVars
    /\ UNCHANGED bridgeVars

\* Lines 774-780: extra.split("~~"), then unescape_extra of the first three
\* fields the iterator yields (three next().unwrap() calls).
decode_extra(e) ==
    LET extra_split == str_split(e, Delim)
    IN  [i \in 1..3 |-> unescape_extra(extra_split[i])]

SplitExtra ==
    /\ cpc = "split"
    /\ Len(str_split(extra, Delim)) >= 3
    /\ fields' = decode_extra(extra)
    /\ cpc' = "done"
    /\ UNCHANGED <<cin, escaped, direct, extra>>
    /\ UNCHANGED snakeVars
    /\ UNCHANGED protoVars
    /\ UNCHANGED genVars
    /\ UNCHANGED bridgeVars

CodecNext == EscapeFields \/ UnescapeFields \/ FormatExtra \/ SplitExtra

SpecCodec == CodecInit /\ [][CodecNext]_vars

(***************************************************************************)
(* Claims about the codec.                                                 *)
(***************************************************************************)
\* C1: for every string s, unescape_extra(escape_extra(s)) = s.
\* Refuted by the code: s = \~\~ escapes to \\~\\~ and unescapes to ~~.
C1_UnescapeInvertsEscape ==
    cpc \in {"format", "split", "done"} => \A i \in 1..3 : direct[i] = cin[i]

\* C2: the combined record splits on ~~ into exactly three fields whose
\* unescaped values are the declaration text, the path text and the custom
\* payload text that the outer phase put in.
\* Refuted by the code: a field ending in ~, or holding ~~~, leaves a ~ next to
\* a delimiter, and the split cuts at the wrong place.
C2_CombinedRecordDecodes ==
    cpc = "done" =>
        /\ Len(str_split(extra, Delim)) = 3
        /\ \A i \in 1..3 : fields[i] = cin[i]

(***************************************************************************)
(* Claims about to_snake_case.                                             *)
(***************************************************************************)
LettersAndUnderscores(s) ==
    \A i \in DOMAIN s : s[i] \in AsciiLower \cup AsciiUpper \cup {"_"}

\* The claimed output, position by position: the lowercased character,
\* preceded by one underscore when it is an uppercase letter that is neither
\* the first character nor directly after an underscore.
RECURSIVE SnakeRef(_, _)
SnakeRef(s, i) ==
    IF i > Len(s) THEN <<>>
    ELSE (IF s[i] \in AsciiUpper /\ i > 1 /\ s[i - 1] # "_" THEN <<"_">> ELSE <<>>)
         \o <<to_ascii_lowercase(s[i])>>
         \o SnakeRef(s, i + 1)

ThisIsATriumph ==
    <<"T","h","i","s","I","s","A","T","r","i","u","m","p","h">>
this_is_a_triumph ==
    <<"t","h","i","s","_","i","s","_","a","_","t","r","i","u","m","p","h">>
aperature_science ==
    <<"_","_","a","p","e","r","a","t","u","r","e","_","s","c","i","e","n","c","e","_","_">>

\* C9: on an input of ASCII letters and underscores, to_snake_case returns the
\* input lowercased with exactly one underscore before each uppercase letter
\* that is neither first nor directly preceded by an underscore; lowercase
\* inputs and the empty string come back unchanged.
C9_LettersAndUnderscores ==
    /\ (spc = "done" /\ LettersAndUnderscores(input)) => result = SnakeRef(input, 1)
    /\ (spc = "done" /\ LettersAndUnderscores(input)
          /\ \A i \in DOMAIN input : input[i] \notin AsciiUpper) => result = input
    /\ to_snake_case(ThisIsATriumph) = this_is_a_triumph
    /\ to_snake_case(aperature_science) = aperature_science

C9_Witness ==
    /\ spc = "done"
    /\ input = <<"a", "B", "_", "B">>
    /\ result = <<"a", "_", "b", "_", "b">>

\* Length of the run of underscores s starts with, and of the run it ends with.
RECURSIVE LeadRun(_)
LeadRun(s) ==
    IF Len(s) = 0 \/ Head(s) # "_" THEN 0 ELSE 1 + LeadRun(Tail(s))
RECURSIVE TrailRun(_)
TrailRun(s) ==
    IF Len(s) = 0 \/ s[Len(s)] # "_" THEN 0 ELSE 1 + TrailRun(SubSeq(s, 1, Len(s) - 1))
Interior(s) ==
    IF LeadRun(s) = Len(s) THEN <<>> ELSE SubSeq(s, LeadRun(s) + 1, Len(s) - TrailRun(s))

\* C10: an underscore run that is neither at the start nor at the end of the
\* input comes out as a single underscore; a run at the start or at the end
\* keeps its length.
\* Refuted by the code: line 332 pushes every underscore, so a__b stays a__b.
C10_InteriorRunsCollapse ==
    (spc = "done" /\ LettersAndUnderscores(input)) =>
        /\ LeadRun(result) = LeadRun(input)
        /\ TrailRun(result) = TrailRun(input)
        /\ \A i \in 1..(Len(Interior(result)) - 1) :
              ~(Interior(result)[i] = "_" /\ Interior(result)[i + 1] = "_")

(***************************************************************************)
(* Claims about the export / import / forward protocol.                    *)
(***************************************************************************)
\* The slot an import or forward of `source` is meant to reach.
SlotFor(source, s) ==
    s \in slots /\ s.def.name = <<"__export_tokens_tt_">> \o to_snake_case(Last(source.segs))

C4_ForwardInvokesTargetWithDecl ==
    (ppc = "done" /\ req.op = "forward") =>
        \E s \in slots :
           /\ SlotFor(req.source, s)
           /\ trace = <<"forward", "slot", "forward_tokens_inner">>
           /\ Len(out) = 1
           /\ out[1].mac = req.target[1]
           /\ out[1].args = IF req.extra # None
                            THEN <<s.decl, <<LitStr(req.extra[1])>> >>
                            ELSE <<s.decl>>

\* The name an export is made under: the override if given, else the
\* declaration's own.
ChosenName(attr, item) == IF attr # <<>> THEN attr[1].s ELSE item_ident(item)[1]

\* C5: a successful export names its slot "__export_tokens_tt_" followed by
\* to_snake_case of the chosen name (the override if given, else the
\* declaration's own name, without its generic parameters), whatever was
\* exported before.
C5_SlotNameFromChosenName ==
    (ppc = "exported" /\ exp.res.tag = "ok") =>
        exp.res.out[1].slot.name
            = <<"__export_tokens_tt_">> \o to_snake_case(ChosenName(exp.attr, exp.item))

C5_Witness ==
    /\ ppc = "exported"
    /\ exp.res.tag = "ok"
    /\ exp.attr = <<>>
    /\ exp.item = StructItem(NameMyT, TRUE)
    /\ exp.res.out[1].slot.name = <<"__export_tokens_tt_", "m", "y", "_", "t">>
    /\ slots # {}

\* C6: export returns an error exactly when (i) the declaration has no name of
\* its own and the override is empty, or (ii) the override is not empty and is
\* not a single identifier; in every other case it succeeds.
\* Refuted by the code: a name without any ASCII letter, digit or underscore
\* normalizes to the empty string, and flatten_ident's Ident::new panics.
C6_ExportErrsExactlyOnBadName ==
    ppc = "exported" =>
        LET noName == item_ident(exp.item) = None /\ exp.attr = <<>>
            badOverride == exp.attr # <<>> /\ ~(Len(exp.attr) = 1 /\ exp.attr[1].k = "ident")
        IN  IF noName \/ badOverride THEN exp.res.tag = "err" ELSE exp.res.tag = "ok"

\* C7: a successful export emits one slot whose two arms both hold the
\* declaration unchanged; the declaration itself follows, behind
\* #[allow(unused)], exactly when emit is true; and the slot is the same
\* whether emit is true or false.
C7_SlotHoldsDeclEmitOptional ==
    (ppc = "exported" /\ exp.res.tag = "ok") =>
        LET o == exp.res.out[1]
            other == export_tokens_internal(exp.attr, exp.item, ~exp.emit)
        IN  /\ o.slot.extra_arm.args = << <<RepVar("tokens_var")>>, exp.item, <<MetaVar("extra")>> >>
            /\ o.slot.plain_arm.args = << <<RepVar("tokens_var")>>, exp.item >>
            /\ exp.emit => o.item_emit = <<AllowUnused>> \o exp.item
            /\ ~exp.emit => o.item_emit = <<>>
            /\ other.tag = "ok"
            /\ other.out[1].slot = o.slot

C7_Witness ==
    /\ ppc = "exported"
    /\ exp.res.tag = "ok"
    /\ ~exp.emit
    /\ exp.item = MacroRulesItem(NameFoo)
    /\ exp.res.out[1].item_emit = <<>>
    /\ exp.res.out[1].slot.plain_arm.args[2] = MacroRulesItem(NameFoo)

\* C8, as claimed: import and forward invoke the path made of every segment of
\* the source path but the last, followed by the slot name of the last.
C8_InvokedPathKeepsPrefix ==
    (ppc = "call" /\ Len(trace) = 1) =>
        call[1].mac.segs
            = SubSeq(req.source.segs, 1, Len(req.source.segs) - 1)
              \o << <<"__export_tokens_tt_">> \o to_snake_case(Last(req.source.segs)) >>

\* C8, amended: import and forward invoke the slot name of the last segment,
\* preceded by the first segment alone when the source path has two or more
\* segments; the segments in between and a leading `::` are not written.
C8_InvokedPathIsCrateAndSlot ==
    (ppc = "call" /\ Len(trace) = 1) =>
        LET src == req.source.segs
            mac == call[1].mac
        IN  /\ ~mac.lead
            /\ Last(mac.segs) = <<"__export_tokens_tt_">> \o to_snake_case(Last(src))
            /\ Len(src) = 1 => Len(mac.segs) = 1
            /\ Len(src) > 1 => (Len(mac.segs) = 2 /\ mac.segs[1] = src[1])

C8_Witness ==
    /\ ppc = "call"
    /\ trace = <<"forward">>
    /\ req.source = Path(TRUE, << <<"k">>, <<"m">>, NameMyT >>)
    /\ call[1].mac = Path(FALSE, << <<"k">>, <<"__export_tokens_tt_", "m", "y", "_", "t">> >>)

(***************************************************************************)
(* Generator definitions: ProcMacro::from and parse_proc_macro_variant     *)
(* (lines 119-148 and 196-278).                                            *)
(*                                                                         *)
(* A definition is what parse2::<ItemFn> reads: visibility, attributes in  *)
(* order, name, arguments in order, statements.  is_fn is FALSE for tokens *)
(* that are no function at all.                                            *)
(***************************************************************************)
\* An attribute `#[path(args)]`: the path's segments and the argument tokens.
Attr(path, args) == [path |-> path, args |-> args]
\* A function argument: `name: T` (Pat::Ident), `_: T` (Pat::Wild) or `self`.
TypedIdent(name) == [kind |-> "ident", name |-> name]
TypedWild == [kind |-> "wild", name |-> "_"]
Receiver == [kind |-> "self", name |-> "self"]
ItemFn(vis, attrs, ident, inputs, stmts) ==
    [is_fn |-> TRUE, vis |-> vis, attrs |-> attrs, ident |-> ident,
     inputs |-> inputs, stmts |-> stmts]
NotAFn == [is_fn |-> FALSE, vis |-> "pub", attrs |-> <<>>, ident |-> <<"S">>,
           inputs |-> <<>>, stmts |-> <<>>]

\* An error value with its message, a sequence of text parts.
ErrMsg(m) == [tag |-> "err", out |-> <<m>>]

\* ProcMacroType::to_str (lines 132-138).
to_str(macro_type) ==
    IF macro_type = "Normal" THEN "#[proc_macro]"
    ELSE IF macro_type = "Attribute" THEN "#[proc_macro_attribute]"
    ELSE "#[proc_macro_derive]"

\* The closure of lines 205-219 on one attribute: the kind it sets, if any.
\* The third test parses keywords::proc_macro, as the first does.
attr_macro_type(attr) ==
    IF attr.path = <<"proc_macro">> THEN Some("Normal")
    ELSE IF attr.path = <<"proc_macro_attribute">> THEN Some("Attribute")
    ELSE IF attr.path = <<"proc_macro">> THEN Some("Derive")
    ELSE None

\* .iter().find(..): the kind set by the first attribute that sets one.
RECURSIVE find_macro_type(_)
find_macro_type(attrs) ==
    IF Len(attrs) = 0 THEN None
    ELSE IF attr_macro_type(Head(attrs)) # None THEN attr_macro_type(Head(attrs))
    ELSE find_macro_type(Tail(attrs))

\* `let Some(FnArg::Typed(arg)) = .. else unreachable!` followed by
\* `let Pat::Ident(ident) = .. else unreachable!` (lines 230-236, 241-247).
arg_ident_panics(inputs, i) ==
    Len(inputs) = 0 \/ inputs[i].kind # "ident"

\* ProcMacro::from (lines 198-257).
ProcMacro_from(tokens) ==
    IF ~tokens.is_fn THEN ErrMsg(<<"expected fn">>)
    ELSE IF tokens.vis # "pub" THEN ErrMsg(<<"Visibility must be public">>)
    ELSE IF find_macro_type(tokens.attrs) = None
    THEN ErrMsg(<<"can only be attached to a proc macro function definition">>)
    ELSE LET macro_type == find_macro_type(tokens.attrs)[1]
         IN  IF arg_ident_panics(tokens.inputs, Len(tokens.inputs)) THEN Panic
             ELSE IF macro_type = "Attribute" /\ arg_ident_panics(tokens.inputs, 1) THEN Panic
             ELSE Ok([proc_fn |-> tokens,
                      macro_type |-> macro_type,
                      tokens_ident |-> tokens.inputs[Len(tokens.inputs)].name,
                      attr_ident |-> IF macro_type = "Attribute"
                                     THEN Some(tokens.inputs[1].name)
                                     ELSE None])

\* The message of lines 271-274: `actual` fills the first hole, `desired`
\* the second.
variant_message(actual, desired) ==
    <<"expected a function definition with ", actual, " but found ", desired, " instead">>

\* parse_proc_macro_variant (lines 261-278).
parse_proc_macro_variant(tokens, macro_type) ==
    LET proc_macro == ProcMacro_from(tokens)
    IN  IF proc_macro.tag # "ok" THEN proc_macro
        ELSE IF proc_macro.out[1].macro_type # macro_type
        THEN ErrMsg(variant_message(to_str(proc_macro.out[1].macro_type), to_str(macro_type)))
        ELSE proc_macro

(***************************************************************************)
(* with_custom_parsing_internal (lines 625-682).                           *)
(***************************************************************************)
\* attr.meta.path().segments.last() has the given identifier.
attr_is(attr, name) == Last(attr.path) = name
has_attr(attrs, name) == \E i \in DOMAIN attrs : attr_is(attrs[i], name)
\* .iter().position(..): the index of the first such attribute.
position(attrs, name) ==
    CHOOSE i \in DOMAIN attrs :
        attr_is(attrs[i], name) /\ \A j \in 1..(i - 1) : ~attr_is(attrs[j], name)

\* The message of lines 646-649 (its backquotes left out).
co_annotation_message(import_tokens_attr_name) ==
    <<"Can only be attached to an attribute proc macro marked with #[",
      import_tokens_attr_name, "]">>
OnlyOneInstance ==
    "Only one instance of #[with_custom_parsing] can be attached at a time."

\* The name the test of line 660 compares with.
SecondInstanceName == "with_custom_parsing_internal"

\* Line 679 appends the annotation, and first the same pushing it in front.
push_attr_front(attrs, attr) == <<attr>> \o attrs
push_attr(attrs, attr) == Append(attrs, attr)

with_custom_parsing_internal(attr, tokens, import_tokens_attr_name) ==
    LET proc_macro == parse_proc_macro_variant(tokens, "Attribute")
    IN  IF proc_macro.tag # "ok" THEN proc_macro
        ELSE IF ~has_attr(proc_macro.out[1].proc_fn.attrs, import_tokens_attr_name)
        THEN ErrMsg(co_annotation_message(import_tokens_attr_name))
        ELSE IF has_attr(proc_macro.out[1].proc_fn.attrs, SecondInstanceName)
        THEN ErrMsg(<<OnlyOneInstance>>)
        ELSE IF parse_path(attr) = None THEN ErrMsg(<<"expected path">>)
        ELSE LET item_fn == proc_macro.out[1].proc_fn
                 custom_path == parse_path(attr)[1]
             IN  Ok([item_fn EXCEPT
                        !.attrs = push_attr(@, Attr(<<"with_custom_parsing">>,
                                                    path_tokens(custom_path)))])

(***************************************************************************)
(* import_tokens_attr_internal and import_tokens_proc_internal: what the   *)
(* outer phase emits (lines 688-851).                                      *)
(***************************************************************************)
remove(attrs, index) ==
    SubSeq(attrs, 1, index - 1) \o SubSeq(attrs, index + 1, Len(attrs))

DocHidden == Attr(<<"doc">>, <<Ident(<<"hidden">>)>>)
ProcMacroAttr == Attr(<<"proc_macro">>, <<>>)

\* format_ident! of lines 732 and 813.
attr_inner_macro_ident(ident) == <<"__import_tokens_attr_">> \o ident \o <<"_inner">>
proc_inner_macro_ident(ident) == <<"__import_tokens_proc_">> \o ident \o <<"_inner">>

\* The emitted inner generator (lines 766-788): it parses its one input as
\* AttrItemWithExtra, binds item_var to the imported item (lines 770-771),
\* then extra_var to the attached declaration decoded from the record
\* (lines 772-785), then runs the statements.  First the same with the two
\* names exchanged.
inner_bindings_swapped(attr_ident, tokens_ident) ==
    [item_var |-> tokens_ident, extra_var |-> attr_ident]
inner_bindings(attr_ident, tokens_ident) ==
    [item_var |-> attr_ident, extra_var |-> tokens_ident]

import_tokens_attr_internal(attr, tokens) ==
    LET mm_override_path == IF parse_path(attr) # None THEN parse_path(attr)[1]
                            ELSE macro_magic_root
        proc_macro == parse_proc_macro_variant(tokens, "Attribute")
    IN  IF proc_macro.tag # "ok" THEN proc_macro
        ELSE
        LET pm == proc_macro.out[1]
            attr_ident == pm.attr_ident[1]
            tokens_ident == pm.tokens_ident
            custom == has_attr(pm.proc_fn.attrs, "with_custom_parsing")
            index == position(pm.proc_fn.attrs, "with_custom_parsing")
            custom_struct_path == parse_path(pm.proc_fn.attrs[index].args)
            orig_attrs == IF custom THEN remove(pm.proc_fn.attrs, index) ELSE pm.proc_fn.attrs
            inner_macro_ident == attr_inner_macro_ident(pm.proc_fn.ident)
        IN  IF custom /\ custom_struct_path = None THEN ErrMsg(<<"expected path">>)
            ELSE Ok([outer |-> [attrs |-> orig_attrs,
                                vis |-> "pub",
                                ident |-> pm.proc_fn.ident,
                                inputs |-> pm.proc_fn.inputs,
                                attached_var |-> tokens_ident,
                                path_var |-> attr_ident,
                                custom_parsing |-> IF custom THEN custom_struct_path ELSE None,
                                forward_to |-> inner_macro_ident,
                                mm_path |-> mm_override_path],
                     inner |-> [attrs |-> <<DocHidden, ProcMacroAttr>>,
                                vis |-> "pub",
                                ident |-> inner_macro_ident,
                                inputs |-> SubSeq(pm.proc_fn.inputs, 1, Len(pm.proc_fn.inputs) - 1),
                                parsed_var |-> attr_ident,
                                bindings |-> inner_bindings(attr_ident, tokens_ident),
                                stmts |-> pm.proc_fn.stmts]])

\* .iter().rev().cloned().collect() of line 816.
RECURSIVE rev(_)
rev(s) == IF Len(s) = 0 THEN <<>> ELSE Append(rev(Tail(s)), Head(s))

import_tokens_proc_internal(attr, tokens) ==
    LET mm_override_path == IF parse_path(attr) # None THEN parse_path(attr)[1]
                            ELSE macro_magic_root
        proc_macro == parse_proc_macro_variant(tokens, "Normal")
    IN  IF proc_macro.tag # "ok" THEN proc_macro
        ELSE
        LET pm == proc_macro.out[1]
            inner_macro_ident == proc_inner_macro_ident(pm.proc_fn.ident)
        IN  Ok([outer |-> [attrs |-> pm.proc_fn.attrs,
                           vis |-> "pub",
                           ident |-> pm.proc_fn.ident,
                           inputs |-> pm.proc_fn.inputs,
                           path_var |-> pm.tokens_ident,
                           forward_to |-> inner_macro_ident,
                           mm_path |-> mm_override_path],
                inner |-> [attrs |-> <<DocHidden, ProcMacroAttr>>,
                           vis |-> "pub",
                           ident |-> inner_macro_ident,
                           inputs |-> rev(pm.proc_fn.inputs),
                           stmts |-> pm.proc_fn.stmts]])

(***************************************************************************)
(* use_internal (lines 854-884).                                           *)
(***************************************************************************)
\* What parse2::<BasicUseStmt> reads: attributes, visibility, `use`, a path,
\* `;`.  is_use is FALSE for tokens it rejects.
BasicUseStmt(attrs, vis, path) == [is_use |-> TRUE, attrs |-> attrs, vis |-> vis, path |-> path]
NotAUse == [is_use |-> FALSE, attrs |-> <<>>, vis |-> "pub", path |-> Path(FALSE, <<>>)]

\* Lines 870-874, and first the same with the two modes exchanged.
hidden_ident_swapped(mode, ident) ==
    IF mode = "Normal" THEN attr_inner_macro_ident(ident) ELSE proc_inner_macro_ident(ident)
hidden_ident(mode, ident) ==
    IF mode = "Normal" THEN <<"__import_tokens_proc_">> \o ident \o <<"_inner">>
    ELSE <<"__import_tokens_attr_">> \o ident \o <<"_inner">>

use_internal(attr, tokens, mode) ==
    IF attr # <<>> THEN ErrMsg(<<"unexpected token">>)
    ELSE IF ~tokens.is_use THEN ErrMsg(<<"expected use statement">>)
    ELSE IF mode = "Derive" THEN Panic
    ELSE LET orig_path == tokens.path
             ident == Last(orig_path.segs)
             hidden_path == [orig_path EXCEPT !.segs[Len(orig_path.segs)] = hidden_ident(mode, ident)]
         IN  Ok(<< [attrs |-> tokens.attrs, vis |-> tokens.vis, path |-> orig_path],
                   [attrs |-> <<DocHidden>>, vis |-> tokens.vis, path |-> hidden_path] >>)

(***************************************************************************)
(* Specification SpecGen: the operations that take a generator definition  *)
(* or a use statement, each called on every definition of GenDefs.         *)
(***************************************************************************)
NameG == <<"g">>
ArgAttr == TypedIdent("attr")
ArgTokens == TypedIdent("tokens")
ArgThird == TypedIdent("third")
\* No argument, one, two, three, and two with `_` for the first.
GenInputs ==
    {<<>>, <<ArgAttr>>, <<ArgAttr, ArgTokens>>, <<ArgAttr, ArgTokens, ArgThird>>,
     <<TypedWild, ArgTokens>>}

CustomPath == Path(FALSE, << <<"CustomParsingA">> >>)
NotAPath == <<LitStr(<<"x">>)>>
Markers ==
    {Attr(<<"proc_macro">>, <<>>), Attr(<<"proc_macro_attribute">>, <<>>),
     Attr(<<"proc_macro_derive">>, <<Ident(<<"D">>)>>)}
ImportTokensAttrAttr == Attr(<<"import_tokens_attr">>, <<>>)
QualifiedImportTokensAttrAttr == Attr(<<"macro_magic", "import_tokens_attr">>, <<>>)
WithCustomParsingAttr == Attr(<<"with_custom_parsing">>, path_tokens(CustomPath))
WithCustomParsingNoPathAttr == Attr(<<"with_custom_parsing">>, NotAPath)
WithCustomParsingInternalAttr == Attr(<<"with_custom_parsing_internal">>, <<>>)
\* The annotations a definition carries besides its marker, in order.
GenAttrLists ==
    {<<>>, <<Attr(<<"inline">>, <<>>)>>}
    \cup {<<m>> : m \in Markers}
    \cup {<<ImportTokensAttrAttr, m>> : m \in Markers}
    \cup {<<m, QualifiedImportTokensAttrAttr>> : m \in Markers}
    \cup {<<ImportTokensAttrAttr, WithCustomParsingAttr, m>> : m \in Markers}
    \cup {<<WithCustomParsingAttr, m, ImportTokensAttrAttr>> : m \in Markers}
    \cup {<<WithCustomParsingAttr, m>> : m \in Markers}
    \cup {<<ImportTokensAttrAttr, WithCustomParsingNoPathAttr, m>> : m \in Markers}
    \cup {<<ImportTokensAttrAttr, WithCustomParsingInternalAttr, m>> : m \in Markers}

Stmts == <<"stmts">>
GenDefs ==
    {NotAFn}
    \cup {ItemFn(v, as, NameG, ins, Stmts) :
              v \in {"pub", "inherited"}, as \in GenAttrLists, ins \in GenInputs}
ProcMacroTypes == {"Normal", "Attribute", "Derive"}
GenAttrArgs == {<<>>, path_tokens(CustomPath), NotAPath}
UseStmts ==
    {NotAUse}
    \cup {BasicUseStmt(as, v, Path(l, pre \o <<NameG>>)) :
              as \in {<<>>, <<Attr(<<"cfg">>, <<Ident(<<"test">>)>>)>>},
              v \in {"pub", "inherited"}, l \in BOOLEAN, pre \in Prefixes}

GenInit ==
    /\ SnakeIdle
    /\ CodecIdle
    /\ ProtoIdle
    /\ GenIdle
    /\ BridgeIdle

\* An operation is called and returns.
GenCall(op, attr, tokens, arg, res) ==
    /\ gpc = "idle"
    /\ gop' = [op |-> op, attr |-> attr, tokens |-> tokens, arg |-> arg]
    /\ gres' = res
    /\ gpc' = "returned"
    /\ UNCHANGED snakeVars
    /\ UNCHANGED codecVars
    /\ UNCHANGED protoVars
    /\ UNCHANGED bridgeVars

ParseProcMacroVariant(tokens, macro_type) ==
    GenCall("parse_proc_macro_variant", <<>>, tokens, macro_type,
            parse_proc_macro_variant(tokens, macro_type))

WithCustomParsing(attr, tokens, import_tokens_attr_name) ==
    GenCall("with_custom_parsing", attr, tokens, import_tokens_attr_name,
            with_custom_parsing_internal(attr, tokens, import_tokens_attr_name))

ImportTokensAttr(attr, tokens) ==
    GenCall("import_tokens_attr", attr, tokens, "", import_tokens_attr_internal(attr, tokens))

ImportTokensProc(attr, tokens) ==
    GenCall("import_tokens_proc", attr, tokens, "", import_tokens_proc_internal(attr, tokens))

Use(attr, tokens, mode) ==
    GenCall("use", attr, tokens, mode, use_internal(attr, tokens, mode))

\* The compiler takes what the operation returned.
GenTaken ==
    /\ gpc = "returned"
    /\ gop' = [op |-> "none"]
    /\ gres' = [tag |-> "none", out |-> <<>>]
    /\ gpc' = "idle"
    /\ UNCHANGED snakeVars
    /\ UNCHANGED codecVars
    /\ UNCHANGED protoVars
    /\ UNCHANGED bridgeVars

GenNext ==
    \/ \E d \in GenDefs, m \in ProcMacroTypes : ParseProcMacroVariant(d, m)
    \/ \E a \in GenAttrArgs, d \in GenDefs : WithCustomParsing(a, d, "import_tokens_attr")
    \/ \E a \in GenAttrArgs, d \in GenDefs : ImportTokensAttr(a, d)
    \/ \E a \in GenAttrArgs, d \in GenDefs : ImportTokensProc(a, d)
    \/ \E a \in GenAttrArgs, u \in UseStmts, m \in ProcMacroTypes : Use(a, u, m)
    \/ GenTaken

SpecGen == GenInit /\ [][GenNext]_vars

(***************************************************************************)
(* The generators import_tokens_attr_internal emits, at work (lines         *)
(* 740-788): the outer generator packs the attached declaration and the    *)
(* path into the record and calls forward_tokens!; the inner generator     *)
(* takes the foreign declaration and the record from the end of the chain. *)
(***************************************************************************)
Keywords == {"struct", "impl", "for", "use"}
Puncts == {"{", "}", "<", ">", "!", "(", ")", ":", "=>", ";", "::", "~"}
\* The text of an identifier: its characters, or its name in one piece.
ident_text(piece) ==
    \A i \in DOMAIN piece :
        piece[i] \notin Keywords \cup Puncts \cup {"\"", "$", " ", Backslash}

\* One token of `str::parse::<TokenStream>()`, from the text between two
\* spaces; a string literal has to be closed.
lex_piece(piece) ==
    IF piece[1] = "\""
    THEN IF /\ Len(piece) >= 2
            /\ piece[Len(piece)] = "\""
            /\ \A i \in 2..(Len(piece) - 1) : piece[i] # "\""
         THEN Some(LitStr(SubSeq(piece, 2, Len(piece) - 1)))
         ELSE None
    ELSE IF Len(piece) = 2 /\ piece[1] = "$" THEN Some(MetaVar(piece[2]))
    ELSE IF Len(piece) = 1 /\ piece[1] \in Keywords THEN Some(Kw(piece[1]))
    ELSE IF Len(piece) = 1 /\ piece[1] \in Puncts THEN Some(Punct(piece[1]))
    ELSE IF ident_text(piece) THEN Some(Ident(piece))
    ELSE None

RECURSIVE lex_pieces(_)
lex_pieces(pieces) ==
    IF Len(pieces) = 0 THEN Some(<<>>)
    ELSE IF Len(Head(pieces)) = 0 THEN lex_pieces(Tail(pieces))
    ELSE LET t == lex_piece(Head(pieces))
             rest == lex_pieces(Tail(pieces))
         IN  IF t = None \/ rest = None THEN None ELSE Some(<<t[1]>> \o rest[1])

\* `string.as_str().parse::<TokenStream>()` of lines 781-783: Some(tokens), or
\* None for a LexError.
parse_token_stream(text) == lex_pieces(str_split(text, <<" ">>))

\* Lines 747-762, the outer generator's body without custom parsing: the
\* attached tokens are parsed as an item and the attribute's tokens as a path,
\* each with parse_macro_input!, which returns a compile error; the record is
\* formatted and forward_tokens! is called with it.  quote! writes the record
\* as a string literal and LitStr::value() reads the same string back.
outer_phase(outer, attr, tokens) ==
    IF item_kind(tokens) = "None" THEN Err
    ELSE IF parse_path(attr) = None THEN Err
    ELSE LET attached_item_str == to_string(tokens)
             path == parse_path(attr)[1]
             custom_parsed == <<>>
             extra_record == escape_extra(attached_item_str) \o Delim
                             \o escape_extra(to_string(path_tokens(path))) \o Delim
                             \o escape_extra(to_string(custom_parsed))
         IN  Ok([source |-> path,
                 target |-> Path(FALSE, <<outer.forward_to>>),
                 mm_path |-> Some(outer.mm_path),
                 extra |-> Some(extra_record)])

\* Lines 769-786, the inner generator's body: its input is parsed as
\* AttrItemWithExtra (a compile error if it is none), the names are bound as
\* inner_bindings says, the later `let` shadowing the earlier, and the
\* statements run.  A field that is no token stream makes unwrap() panic.
inner_phase(inner, args) ==
    IF ~(/\ Len(args) = 2
         /\ item_kind(args[1]) # "None"
         /\ Len(args[2]) = 1
         /\ args[2][1].k = "lit")
    THEN Err
    ELSE LET imported_item == args[1]
             extra_value == args[2][1].s
             decoded == decode_extra(extra_value)
             tokens == parse_token_stream(decoded[1])
             foreign_path == parse_token_stream(decoded[2])
             custom_parsed_tokens == parse_token_stream(decoded[3])
         IN  IF tokens = None \/ foreign_path = None \/ custom_parsed_tokens = None
             THEN Panic
             ELSE Ok([inputs |-> inner.inputs,
                      env |-> [n \in {inner.bindings.item_var, inner.bindings.extra_var} |->
                                  IF n = inner.bindings.extra_var THEN tokens[1]
                                  ELSE imported_item],
                      source_path |-> foreign_path[1],
                      custom_tokens |-> custom_parsed_tokens[1],
                      stmts |-> inner.stmts])

(***************************************************************************)
(* Specification SpecBridge: declarations are exported, a bridged          *)
(* attribute generator is defined and attached to a declaration, and the   *)
(* chain of expansions runs up to the inner generator.                     *)
(***************************************************************************)
NameBar == <<"B", "a", "r">>
\* Exported: struct Foo {}  and  macro_rules! Foo { ($extra:expr) => ... }
BridgeExports == {StructItem(NameFoo, FALSE), MacroRulesItem(NameFoo)}
\* some_macro! { "lit" }
MacroItemWith(lit) ==
    <<Ident(<<"some_macro">>), Punct("!"), Punct("{"), LitStr(lit), Punct("}")>>
\* Attached: struct Bar {}, two macro invocations whose literal holds tildes,
\* and tokens that are no item.
AttachedItems ==
    {StructItem(NameBar, FALSE), MacroItemWith(<<"~", "~">>),
     MacroItemWith(<<"~", "~", "~">>), <<Punct(";")>>}
\* The attribute's tokens where the generator is attached: Foo, ::k::Foo, Bar,
\* and a literal.
SelectorAttrs ==
    {path_tokens(Path(FALSE, <<NameFoo>>)),
     path_tokens(Path(TRUE, <<<<"k">>, NameFoo>>)),
     path_tokens(Path(FALSE, <<NameBar>>)),
     <<LitStr(<<"x">>)>>}
\* The definitions #[import_tokens_attr] is put on, their two arguments named
\* in either order, and the attribute's own argument.
BridgeDefs ==
    {ItemFn("pub", <<Attr(<<"proc_macro_attribute">>, <<>>)>>, <<"g">>, ins, <<"stmts">>) :
        ins \in {<<TypedIdent("attr"), TypedIdent("tokens")>>,
                 <<TypedIdent("tokens"), TypedIdent("attr")>>}}
BridgeOverrides == {<<>>, path_tokens(Path(FALSE, << <<"k">>, <<"mm">> >>))}

\* #[import_tokens_attr(attr)] on a definition: the two generators exist.
BridgeDefine(attr, def) ==
    /\ bpc = "idle"
    /\ import_tokens_attr_internal(attr, def).tag = "ok"
    /\ bdef' = [def |-> def, gen |-> import_tokens_attr_internal(attr, def).out[1]]
    /\ bpc' = "defined"
    /\ UNCHANGED bind
    /\ UNCHANGED snakeVars
    /\ UNCHANGED codecVars
    /\ UNCHANGED protoVars
    /\ UNCHANGED genVars

\* #[g(attr)] on a declaration: the outer generator runs and the compiler
\* takes the forward_tokens! call it returns.
BridgeAttach(attr, tokens) ==
    LET res == outer_phase(bdef.gen.outer, attr, tokens)
        o == res.out[1]
        fwd == forward_tokens_internal(o.source, o.target, o.mm_path, o.extra)
    IN  /\ bpc = "defined"
        /\ ppc = "idle"
        /\ res.tag = "ok"
        /\ bind' = [attached |-> tokens, attr |-> attr, res |-> [tag |-> "none", out |-> <<>>]]
        /\ bpc' = "attached"
        /\ req' = [op |-> "forward", var |-> <<>>, source |-> o.source,
                   target |-> Some(o.target), mm_path |-> o.mm_path, extra |-> o.extra]
        /\ trace' = <<"forward">>
        /\ out' = None
        /\ call' = fwd.out
        /\ ppc' = IF fwd.tag = "ok" THEN "call" ELSE "panicked"
        /\ UNCHANGED <<slots, exp, bdef>>
        /\ UNCHANGED snakeVars
        /\ UNCHANGED codecVars
        /\ UNCHANGED genVars

\* The outer generator returns a compile error: nothing is expanded.
BridgeAttachRejected(attr, tokens) ==
    /\ bpc = "defined"
    /\ ppc = "idle"
    /\ outer_phase(bdef.gen.outer, attr, tokens).tag = "err"
    /\ bind' = [attached |-> tokens, attr |-> attr, res |-> Err]
    /\ bpc' = "rejected"
    /\ UNCHANGED bdef
    /\ UNCHANGED snakeVars
    /\ UNCHANGED codecVars
    /\ UNCHANGED protoVars
    /\ UNCHANGED genVars

\* The chain ended in an invocation of the inner generator: its body runs.
BridgeInner ==
    /\ bpc = "attached"
    /\ ppc = "done"
    /\ out[1].mac = Path(FALSE, <<bdef.gen.inner.ident>>)
    /\ bind' = [bind EXCEPT !.res = inner_phase(bdef.gen.inner, out[1].args)]
    /\ bpc' = "ran"
    /\ UNCHANGED bdef
    /\ UNCHANGED snakeVars
    /\ UNCHANGED codecVars
    /\ UNCHANGED protoVars
    /\ UNCHANGED genVars

BridgeNext ==
    \/ \E i \in BridgeExports, e \in BOOLEAN : Export(<<>>, i, e)
    \/ DefineSlot
    \/ ExportRejected
    \/ \E a \in BridgeOverrides, d \in BridgeDefs : BridgeDefine(a, d)
    \/ \E a \in SelectorAttrs, i \in AttachedItems : BridgeAttach(a, i)
    \/ \E a \in SelectorAttrs, i \in AttachedItems : BridgeAttachRejected(a, i)
    \/ ExpandSlot
    \/ Unresolved
    \/ ForwardInner
    \/ BridgeInner

SpecBridge == Init /\ [][BridgeNext]_vars

(***************************************************************************)
(* Further claims about to_snake_case.                                     *)
(***************************************************************************)
AsciiLetters == AsciiLower \cup AsciiUpper
Alphabetic == AsciiLetters \cup {NonAsciiLower}
IsUpper(c) == c \in AsciiUpper

\* The loop is about to handle input[idx], and input[idx - 1] and input[idx]
\* are both in `letters`.
AtPair(letters) ==
    /\ spc = "run"
    /\ idx' = idx + 1
    /\ idx >= 2
    /\ input[idx - 1] \in letters
    /\ input[idx] \in letters

\* This iteration pushed an underscore.
UnderscorePushed ==
    /\ Len(st'.output) > Len(st.output)
    /\ st'.output[Len(st.output) + 1] = "_"

\* C11, as claimed: between two adjacent alphabetic characters an underscore
\* is inserted exactly when one is uppercase and the other lowercase and they
\* are not the first and second character of the string.
C11_BoundaryIffCaseChanges ==
    [][AtPair(Alphabetic) =>
          (UnderscorePushed <=>
              (IsUpper(input[idx - 1]) # IsUpper(input[idx]) /\ idx # 2))]_vars

\* C11, amended: between two adjacent ASCII letters an underscore is inserted
\* exactly when the second one is uppercase, whatever the case of the first
\* and wherever the pair stands.
C11_BoundaryIffSecondUpper ==
    [][AtPair(AsciiLetters) => (UnderscorePushed <=> IsUpper(input[idx]))]_vars

\* AB at the start of the input: same case, first and second character, and
\* an underscore between them.
C11_Witness ==
    /\ spc = "run"
    /\ idx = 4
    /\ input = <<"B", "B", "a">>
    /\ st.output = <<"b", "_", "b", "a">>

\* The characters line 337 lets through.
Kept(c) == is_ascii_alphanumeric(c) \/ c = "_" \/ is_whitespace(c)
\* s with every other character deleted.
RECURSIVE DeleteDropped(_)
DeleteDropped(s) ==
    IF Len(s) = 0 THEN <<>>
    ELSE (IF Kept(Head(s)) THEN <<Head(s)>> ELSE <<>>) \o DeleteDropped(Tail(s))

\* C12: a character that is not ASCII alphanumeric, underscore or whitespace
\* has no effect: to_snake_case(s) is to_snake_case of s with all such
\* characters deleted, wherever they stand.
C12_DroppedCharsHaveNoEffect ==
    spc = "done" => result = to_snake_case(DeleteDropped(input))

\* A dropped first character and a dropped character between two letters.
C12_Witness ==
    /\ spc = "done"
    /\ input = <<"!", "a", NonAsciiLower, "B">>
    /\ DeleteDropped(input) = <<"a", "B">>
    /\ result = <<"a", "_", "b">>

\* C20: to_snake_case is idempotent, and so an identifier and its normalized
\* form get the same slot name from export_tokens_macro_ident.
C20_Idempotent ==
    spc = "done" =>
        /\ to_snake_case(result) = result
        /\ (ident_new_ok(input) /\ ~flatten_ident_panics(input)) =>
               export_tokens_macro_ident(result) = export_tokens_macro_ident(input)

\* aB1 normalizes to a_b_1, which normalizes to itself.
C20_Witness ==
    /\ spc = "done"
    /\ input = <<"a", "B", "1">>
    /\ result = <<"a", "_", "b", "_", "1">>
    /\ result # input
    /\ to_snake_case(result) = result

(***************************************************************************)
(* Claims about generator definitions and use statements.                  *)
(***************************************************************************)
Returned(op) == gpc = "returned" /\ gop.op = op

\* A public function with the given marker first among its markers and two
\* arguments bound by identifiers.
MarkedBy(def, marker) ==
    /\ def.is_fn
    /\ def.vis = "pub"
    /\ def.inputs = <<ArgAttr, ArgTokens>>
    /\ \E i \in DOMAIN def.attrs :
          /\ def.attrs[i].path = <<marker>>
          /\ \A j \in 1..(i - 1) : def.attrs[j] \notin Markers

\* The kind the definition's marker stands for.
KindOf(def) ==
    IF MarkedBy(def, "proc_macro") THEN "Normal"
    ELSE IF MarkedBy(def, "proc_macro_attribute") THEN "Attribute"
    ELSE "Derive"

\* C13: with_custom_parsing, processed on a definition that still carries
\* another with_custom_parsing annotation, returns the error "Only one
\* instance of #[with_custom_parsing] can be attached at a time" and emits no
\* definition.
\* Refuted by the code: line 660 looks for an annotation named
\* with_custom_parsing_internal, so a second with_custom_parsing goes unseen.
C13_SecondAnnotationRejected ==
    (/\ Returned("with_custom_parsing")
     /\ MarkedBy(gop.tokens, "proc_macro_attribute")
     /\ has_attr(gop.tokens.attrs, gop.arg)
     /\ parse_path(gop.attr) # None
     /\ has_attr(gop.tokens.attrs, "with_custom_parsing")) =>
        /\ gres.tag = "err"
        /\ gres = ErrMsg(<<OnlyOneInstance>>)

\* C14: on a definition accepted as an attribute generator,
\* with_custom_parsing succeeds only if the definition carries an annotation
\* whose last path segment is the bridging annotation's name, and otherwise
\* returns the error that names that annotation; on success the definition
\* comes back with its annotations in their order and with_custom_parsing
\* appended after them, so after the bridging annotation.
C14_NeedsBridgingAnnotation ==
    (/\ Returned("with_custom_parsing")
     /\ parse_proc_macro_variant(gop.tokens, "Attribute").tag = "ok") =>
        LET attrs == gop.tokens.attrs
            bridged == \E i \in DOMAIN attrs : Last(attrs[i].path) = gop.arg
        IN  /\ gres.tag = "ok" => bridged
            /\ ~bridged => gres = ErrMsg(<<"Can only be attached to an attribute proc macro marked with #[",
                                           gop.arg, "]">>)
            /\ gres.tag = "ok" =>
                  LET emitted == gres.out[1]
                  IN  /\ SubSeq(emitted.attrs, 1, Len(attrs)) = attrs
                      /\ Len(emitted.attrs) = Len(attrs) + 1
                      /\ Last(emitted.attrs) = Attr(<<"with_custom_parsing">>, gop.attr)
                      /\ \E i \in 1..Len(attrs) : Last(emitted.attrs[i].path) = gop.arg
                      /\ [emitted EXCEPT !.attrs = attrs] = gop.tokens

C14_Witness ==
    /\ Returned("with_custom_parsing")
    /\ gop.attr = path_tokens(CustomPath)
    /\ gop.tokens.attrs = <<Attr(<<"proc_macro_attribute">>, <<>>), QualifiedImportTokensAttrAttr>>
    /\ gres.tag = "ok"
    /\ gres.out[1].attrs = <<Attr(<<"proc_macro_attribute">>, <<>>), QualifiedImportTokensAttrAttr,
                              WithCustomParsingAttr>>

\* C15: the outer phase of attribute bridging accepts a definition exactly
\* when it is a public function marked as an attribute generator with exactly
\* two arguments, each bound by an identifier, and returns an error on every
\* other definition.
\* Refuted by the code: ProcMacro::from reads the first and the last argument
\* and never counts them.
C15_AcceptsExactlyTwoArguments ==
    Returned("import_tokens_attr") =>
        IF MarkedBy(gop.tokens, "proc_macro_attribute")
        THEN gres.tag = "ok" \/ (has_attr(gop.tokens.attrs, "with_custom_parsing") /\ gres.tag = "err")
        ELSE gres.tag = "err"

\* C16: every operation returns generated code or an error value, whatever
\* its input; none panics.
\* Refuted by the code: the unreachable! of lines 230-246 are reached by a
\* definition without arguments or with `_` for an argument.
C16_NoOperationPanics ==
    gpc = "returned" => gres.tag \in {"ok", "err"}

\* The inner continuation's name that bridging gives a definition named g.
BridgedInnerName(mode, g) ==
    IF mode = "Attribute"
    THEN import_tokens_attr_internal(
             <<>>, ItemFn("pub", <<Attr(<<"proc_macro_attribute">>, <<>>)>>, g,
                          <<ArgAttr, ArgTokens>>, Stmts)).out[1].inner.ident
    ELSE import_tokens_proc_internal(
             <<>>, ItemFn("pub", <<Attr(<<"proc_macro">>, <<>>)>>, g,
                          <<ArgTokens>>, Stmts)).out[1].inner.ident

\* C17: for a use of path p ending in g, use-aliasing in attribute or normal
\* mode emits the use of p, then a #[doc(hidden)] use of the same visibility
\* of p with its last segment replaced by the name of the inner continuation
\* that attribute bridging, respectively procedural bridging, generates for a
\* definition named g.
C17_HiddenUseNamesInnerContinuation ==
    (/\ Returned("use")
     /\ gop.attr = <<>>
     /\ gop.tokens.is_use
     /\ gop.arg \in {"Attribute", "Normal"}) =>
        /\ gres.tag = "ok"
        /\ LET p == gop.tokens.path
               uses == gres.out[1]
           IN  /\ Len(uses) = 2
               /\ uses[1] = [attrs |-> gop.tokens.attrs, vis |-> gop.tokens.vis, path |-> p]
               /\ uses[2].attrs = <<DocHidden>>
               /\ uses[2].vis = gop.tokens.vis
               /\ uses[2].path.lead = p.lead
               /\ uses[2].path.segs
                     = SubSeq(p.segs, 1, Len(p.segs) - 1)
                       \o <<BridgedInnerName(gop.arg, Last(p.segs))>>

C17_Witness ==
    /\ Returned("use")
    /\ gop.arg = "Attribute"
    /\ gop.tokens.vis = "pub"
    /\ gop.tokens.path = Path(TRUE, << <<"k">>, <<"m">>, NameG >>)
    /\ gres.tag = "ok"
    /\ gres.out[1][2].path
          = Path(TRUE, << <<"k">>, <<"m">>, <<"__import_tokens_attr_", "g", "_inner">> >>)

\* C19: parse_proc_macro_variant classifies a public definition by its marker
\* (#[proc_macro] Normal, #[proc_macro_attribute] Attribute,
\* #[proc_macro_derive] Derive), returns Ok exactly when that kind is the
\* expected one, and otherwise returns an error whose message gives the
\* expected kind as expected and the definition's kind as found.
\* Refuted by the code: the message has the two the other way round, and a
\* #[proc_macro_derive] definition is never classified (line 214 tests
\* proc_macro a second time).
C19_ClassifiesAndReportsMismatch ==
    (/\ Returned("parse_proc_macro_variant")
     /\ \E m \in {"proc_macro", "proc_macro_attribute", "proc_macro_derive"} :
           MarkedBy(gop.tokens, m)) =>
        IF KindOf(gop.tokens) = gop.arg
        THEN gres.tag = "ok" /\ gres.out[1].macro_type = gop.arg
        ELSE gres = ErrMsg(<<"expected a function definition with ", to_str(gop.arg),
                             " but found ", to_str(KindOf(gop.tokens)), " instead">>)

(***************************************************************************)
(* Claims about the bridged attribute generator at work.                   *)
(***************************************************************************)
\* The slot that holds the declaration the attribute's path names.
NamedBy(s, attr) ==
    /\ parse_path(attr) # None
    /\ item_ident(s.decl) = Some(Last(parse_path(attr)[1].segs))
    /\ s.def.name = export_tokens_macro_ident(Last(parse_path(attr)[1].segs))

\* C18: when a bridged attribute generator is attached to declaration A with
\* a path that names an exported declaration F, the inner phase runs the
\* definition's statements with the definition's first argument name bound to
\* the tokens of F and its second argument name bound to the tokens of A, and
\* the inner generator's signature keeps the first argument only.
\* Refuted by the code: an A whose text holds ~~~ comes back from the record
\* cut short and unwrap() panics on it, and an F that uses $extra reaches the
\* inner phase with the record in its place.
C18_InnerBindsForeignAndAttached ==
    bpc = "ran" =>
        \A s \in slots :
            NamedBy(s, bind.attr) =>
                /\ bind.res.tag = "ok"
                /\ bind.res.out[1].env[bdef.def.inputs[1].name] = s.decl
                /\ bind.res.out[1].env[bdef.def.inputs[2].name] = bind.attached
                /\ bind.res.out[1].inputs = <<bdef.def.inputs[1]>>
                /\ bind.res.out[1].stmts = bdef.def.stmts

(***************************************************************************)
(* A claim about the characters to_snake_case returns.                     *)
(***************************************************************************)
\* C21: for every input, the output of to_snake_case holds only lowercase
\* ASCII letters, ASCII digits and underscores; no whitespace and no uppercase
\* letter, wherever whitespace, underscores and dropped characters stand in
\* the input.
\* Refuted by the code: while `first` is set, the test of line 340 sends a
\* whitespace character to the branch that pushes it (line 353), and neither
\* an underscore nor a dropped character clears `first`.
C21_OutputIsLowerSnake ==
    spc = "done" =>
        \A i \in DOMAIN result : result[i] \in AsciiLower \cup AsciiDigit \cup {"_"}


====
